---- MODULE Spec2Model ----
(***************************************************************************)
(* Model of the Bongs / Paragon paylink relay (src/index.js).              *)
(*                                                                         *)
(* Strings are sequences of one-character strings so that trim,            *)
(* startsWith, regex substring search and number formatting are computed.  *)
(* A JavaScript value is a record [t, s, n]: t is the typeof tag, s the    *)
(* characters of a string, n the number in thousandths.                    *)
(*                                                                         *)
(* One inbound call is handled at a time; the handler is cut at its two    *)
(* awaits (axios.post, transporter.sendMail).  Orders are JSON objects as  *)
(* body-parser delivers them; billing_address is absent and the customer   *)
(* object carries only an email in the orders enumerated here.             *)
(***************************************************************************)
EXTENDS Integers, Sequences, FiniteSets, TLC

\* Largest value Date.now() takes in the model.
MaxNow == 2

-----------------------------------------------------------------------------
\* JavaScript values

Undef == [t |-> "undefined", s |-> <<>>, n |-> 0]

Str(x) == [t |-> "string", s |-> x, n |-> 0]

Num(k) == [t |-> "number", s |-> <<>>, n |-> k]

\* An object parsed from JSON whose own "toString" property is not callable,
\* e.g. {"toString": 1}: truthy, and any string coercion throws a TypeError.
BadObj == [t |-> "object", s |-> <<>>, n |-> 0]

Truthy(v) ==
  CASE v.t = "undefined" -> FALSE
    [] v.t = "string" -> v.s # <<>>
    [] v.t = "number" -> v.n # 0
    [] OTHER -> TRUE

\* a || b
Or(a, b) == IF Truthy(a) THEN a ELSE b

-----------------------------------------------------------------------------
\* String primitives

DigitChars == <<"0", "1", "2", "3", "4", "5", "6", "7", "8", "9">>

UpperChars == <<"A", "B", "C", "D", "E", "F", "G", "H", "I", "J", "K", "L", "M",
                "N", "O", "P", "Q", "R", "S", "T", "U", "V", "W", "X", "Y", "Z">>

LowerChars == <<"a", "b", "c", "d", "e", "f", "g", "h", "i", "j", "k", "l", "m",
                "n", "o", "p", "q", "r", "s", "t", "u", "v", "w", "x", "y", "z">>

LowerChar(c) ==
  IF \E i \in 1..Len(UpperChars) : UpperChars[i] = c
  THEN LowerChars[CHOOSE i \in 1..Len(UpperChars) : UpperChars[i] = c]
  ELSE c

ToLowerCase(x) == [i \in 1..Len(x) |-> LowerChar(x[i])]

UpperChar(c) ==
  IF \E i \in 1..Len(LowerChars) : LowerChars[i] = c
  THEN UpperChars[CHOOSE i \in 1..Len(LowerChars) : LowerChars[i] = c]
  ELSE c

ToUpperCase(x) == [i \in 1..Len(x) |-> UpperChar(x[i])]

IsSpace(c) == c = " "

RECURSIVE TrimStart(_)
TrimStart(x) ==
  IF x # <<>> /\ IsSpace(Head(x)) THEN TrimStart(Tail(x)) ELSE x

RECURSIVE TrimEnd(_)
TrimEnd(x) ==
  IF x # <<>> /\ IsSpace(x[Len(x)]) THEN TrimEnd(SubSeq(x, 1, Len(x) - 1)) ELSE x

\* String.prototype.trim
Trim(x) == TrimEnd(TrimStart(x))

\* String.prototype.startsWith
StartsWith(x, p) == Len(x) >= Len(p) /\ SubSeq(x, 1, Len(p)) = p

\* an unanchored regular expression of literal characters: substring search
Includes(x, sub) ==
  \E i \in 1..(Len(x) - Len(sub) + 1) : SubSeq(x, i, i + Len(sub) - 1) = sub

RECURSIVE NatToString(_)
NatToString(k) ==
  IF k < 10 THEN <<DigitChars[k + 1]>>
  ELSE NatToString(k \div 10) \o <<DigitChars[(k % 10) + 1]>>

RECURSIVE StripZeros(_)
StripZeros(x) ==
  IF x # <<>> /\ x[Len(x)] = "0" THEN StripZeros(SubSeq(x, 1, Len(x) - 1)) ELSE x

\* Number -> string for a non-negative number given in thousandths
NumberToString(k) ==
  LET ip == k \div 1000
      fp == k % 1000
      fd == <<DigitChars[(fp \div 100) + 1], DigitChars[((fp \div 10) % 10) + 1],
              DigitChars[(fp % 10) + 1]>>
  IN IF fp = 0 THEN NatToString(ip)
     ELSE NatToString(ip) \o <<".">> \o StripZeros(fd)

\* Number.prototype.toFixed(2) for a non-negative number given in thousandths
ToFixed2(k) ==
  LET h == (k + 5) \div 10
  IN NatToString(h \div 100) \o <<".">> \o
     <<DigitChars[((h % 100) \div 10) + 1], DigitChars[(h % 10) + 1]>>

\* true when coercing the value to a string throws
CoercionThrows(v) == v.t = "object"

\* the string a value coerces to (String(v), v.toString(), v + '')
ToStr(v) ==
  CASE v.t = "string" -> v.s
    [] v.t = "number" -> NumberToString(v.n)
    [] v.t = "undefined" -> <<"u", "n", "d", "e", "f", "i", "n", "e", "d">>
    [] OTHER -> <<>>

-----------------------------------------------------------------------------
\* String literals of the program

PREFIX == <<"b", "o", "n", "g", "s", "-">>

NO_ORDER == <<"n", "o", "-", "o", "r", "d", "e", "r", "-">>

ZERO_AMOUNT == <<"0", ".", "0", "0">>

CARD_RE == <<"c", "a", "r", "d">>

CARD_PAYMENT_RE == <<"c", "a", "r", "d", " ", "p", "a", "y", "m", "e", "n", "t">>

DESCRIPTION == <<"B", "o", "n", "g", "s", " ", "o", "r", "d", "e", "r", " ", "#">>

CURRENCY == <<"G", "B", "P">>

CUSTOMER == <<"C", "u", "s", "t", "o", "m", "e", "r">>

DEFAULT_COUNTRY == <<"G", "B">>

IP_ADDRESS == "1.2.3.4"

BONGS_REDIRECT_URL == "https://bongs.co.uk/payment-complete"

BONGS_WEBHOOK_URL == "https://webhook.site/your-id"

\* `${PARAGON_API_BASE}/v4/${PARAGON_ENDPOINT}/form/${PARAGON_METHOD}`
requestUrl == "https://channel.paragon.online/v4/7592/form/sale"

-----------------------------------------------------------------------------
\* buildParagonRequestFromShopify

\* payment_gateway_names is [t, s, a]: an array (a), a string (s) or another shape
GatewayList(raw) ==
  IF raw.t = "array" THEN raw.a
  ELSE IF raw.t = "string" THEN <<Str(raw.s)>>
  ELSE <<>>

\* /card payments?/i.test(g) || /card/i.test(g), g already coerced to a string
TestCard(x) ==
  \/ Includes(ToLowerCase(x), CARD_PAYMENT_RE)
  \/ Includes(ToLowerCase(x), CARD_RE)

\* gateways.some(...): "true", "false", or "throw" when an element that is
\* reached before any match cannot be coerced to a string
RECURSIVE isCard(_)
isCard(gateways) ==
  IF gateways = <<>> THEN "false"
  ELSE IF CoercionThrows(Head(gateways)) THEN "throw"
  ELSE IF TestCard(ToStr(Head(gateways))) THEN "true"
  ELSE isCard(Tail(gateways))

\* order.name || (order.order_number != null ? String(order.order_number) : ''),
\* then 'no-order-' + Date.now() when that is falsy
orderNumber(order, now) ==
  LET first == Or(order.name,
                  IF order.order_number.t # "undefined"
                  THEN Str(ToStr(order.order_number)) ELSE Str(<<>>))
  IN IF ~Truthy(first) THEN Str(NO_ORDER \o NatToString(now)) ELSE first

\* total_price || current_total_price || subtotal_price || shop money amount || ''
amountRaw(order) ==
  Or(Or(Or(Or(order.total_price, order.current_total_price),
           order.subtotal_price), order.shop_money_amount), Str(<<>>))

amountUntrimmed(raw) ==
  IF raw.t = "number" THEN ToFixed2(raw.n)
  ELSE IF raw.t = "string" /\ Trim(raw.s) # <<>> THEN raw.s
  ELSE ZERO_AMOUNT

amount(raw) ==
  IF raw.t = "number" THEN ToFixed2(raw.n)
  ELSE IF raw.t = "string" /\ Trim(raw.s) # <<>> THEN Trim(raw.s)
  ELSE ZERO_AMOUNT

\* order.email || customer.email || ''
customerEmail(order) == Or(Or(order.email, order.customer_email), Str(<<>>))

\* shipping.first_name || customer.first_name || ''
firstName(order) ==
  Or(Or(order.shipping_address.first_name, order.customer_first_name), Str(<<>>))

\* shipping.last_name || customer.last_name || ''
lastName(order) ==
  Or(Or(order.shipping_address.last_name, order.customer_last_name), Str(<<>>))

\* (firstName + ' ' + lastName).trim() || 'Customer'
customerName(order) ==
  LET full == Trim(ToStr(firstName(order)) \o <<" ">> \o ToStr(lastName(order)))
  IN IF full = <<>> THEN CUSTOMER ELSE full

\* [address1 || '', address2 || ''].filter(Boolean).join(', ')
addressLine(order) ==
  LET a1 == Or(order.shipping_address.address1, Str(<<>>))
      a2 == Or(order.shipping_address.address2, Str(<<>>))
  IN IF Truthy(a1) /\ Truthy(a2) THEN ToStr(a1) \o <<",", " ">> \o ToStr(a2)
     ELSE IF Truthy(a1) THEN ToStr(a1)
     ELSE IF Truthy(a2) THEN ToStr(a2)
     ELSE <<>>

cityLine(order) == Or(order.shipping_address.city, Str(<<>>))

postcodeLine(order) == Or(order.shipping_address.zip, Str(<<>>))

\* ((shipping.country_code || customer.country_code || 'GB') + '').toUpperCase()
countryCode(order) ==
  ToUpperCase(ToStr(Or(Or(order.shipping_address.country_code,
                          order.customer_country_code), Str(DEFAULT_COUNTRY))))

clientOrderIdAlwaysPrefixed(on) == PREFIX \o Trim(ToStr(on))

clientOrderId(on) ==
  LET c == Trim(ToStr(on))
  IN IF ~StartsWith(c, PREFIX) THEN PREFIX \o c ELSE c

\* JSON.stringify of the request object: its properties in insertion order
JsonStringify(obj) ==
  << [k |-> "clientOrderId", v |-> obj.clientOrderId],
     [k |-> "amount", v |-> obj.amount],
     [k |-> "currency", v |-> obj.currency],
     [k |-> "buyerDetails.firstName", v |-> obj.firstName],
     [k |-> "buyerDetails.lastName", v |-> obj.lastName],
     [k |-> "buyerDetails.email", v |-> obj.email],
     [k |-> "buyerDetails.address", v |-> obj.address],
     [k |-> "buyerDetails.city", v |-> obj.city],
     [k |-> "buyerDetails.state", v |-> obj.state],
     [k |-> "buyerDetails.zipCode", v |-> obj.zipCode],
     [k |-> "buyerDetails.country", v |-> obj.country],
     [k |-> "buyerDetails.phone", v |-> obj.phone],
     [k |-> "technicalDetails.ipaddress", v |-> obj.ipaddress],
     [k |-> "technicalDetails.redirectUrl", v |-> obj.redirectUrl],
     [k |-> "technicalDetails.webhookUrl", v |-> obj.webhookUrl],
     [k |-> "technicalDetails.payByLink", v |-> obj.payByLink],
     [k |-> "orderDescription", v |-> obj.orderDescription],
     [k |-> "merchantControl", v |-> obj.merchantControl] >>

\* crypto.createHmac('sha256', key).update(body + url).digest('hex'), kept symbolic
Hmac(key, body, url) == [key |-> key, body |-> body, url |-> url]

NoOrder ==
  [clientOrderId |-> <<>>, amount |-> <<>>, currency |-> <<>>,
   firstName |-> <<>>, lastName |-> <<>>, email |-> <<>>, address |-> <<>>,
   city |-> <<>>, state |-> <<>>, zipCode |-> <<>>, country |-> <<>>, phone |-> <<>>,
   ipaddress |-> "", redirectUrl |-> "", webhookUrl |-> "", payByLink |-> FALSE,
   orderDescription |-> <<>>, merchantControl |-> <<>>]

NoParsed ==
  [orderNumber |-> Undef, amount |-> <<>>, customerName |-> <<>>, customerEmail |-> Undef,
   addressLine |-> <<>>, cityLine |-> Undef, postcodeLine |-> Undef, countryCode |-> <<>>]

NoBuilt(kind) ==
  [kind |-> kind, paragonOrder |-> NoOrder, bodyString |-> <<>>,
   authHeader |-> Hmac(<<>>, <<>>, ""),
   parsed |-> NoParsed]

\* kind "null": return null; "throw": a TypeError escapes; "built": the request
buildParagonRequestFromShopify(order, control, now) ==
  IF control = <<>> THEN NoBuilt("null")
  ELSE IF isCard(GatewayList(order.payment_gateway_names)) = "throw" THEN NoBuilt("throw")
  ELSE IF isCard(GatewayList(order.payment_gateway_names)) = "false" THEN NoBuilt("null")
  ELSE IF ~Truthy(order.name) /\ CoercionThrows(order.order_number) THEN NoBuilt("throw")
  ELSE IF CoercionThrows(orderNumber(order, now)) THEN NoBuilt("throw")
  ELSE
    LET on == orderNumber(order, now)
        am == amount(amountRaw(order))
        em == customerEmail(order)
        id == clientOrderId(on)
        po == [clientOrderId |-> id, amount |-> am, currency |-> CURRENCY,
               firstName |-> ToStr(Or(firstName(order), Str(CUSTOMER))),
               lastName |-> ToStr(Or(lastName(order), Str(CUSTOMER))),
               email |-> ToStr(Or(em, Str(<<>>))),
               address |-> addressLine(order),
               city |-> ToStr(cityLine(order)),
               state |-> <<>>,
               zipCode |-> ToStr(postcodeLine(order)),
               country |-> countryCode(order),
               phone |-> <<>>,
               ipaddress |-> IP_ADDRESS,
               redirectUrl |-> BONGS_REDIRECT_URL,
               webhookUrl |-> BONGS_WEBHOOK_URL,
               payByLink |-> TRUE,
               orderDescription |-> DESCRIPTION \o id,
               merchantControl |-> control]
        bs == JsonStringify(po)
    IN [kind |-> "built", paragonOrder |-> po, bodyString |-> bs,
        authHeader |-> Hmac(control, bs, requestUrl),
        parsed |-> [orderNumber |-> on, amount |-> am,
                    customerName |-> customerName(order), customerEmail |-> em,
                    addressLine |-> addressLine(order), cityLine |-> cityLine(order),
                    postcodeLine |-> postcodeLine(order),
                    countryCode |-> countryCode(order)]]

-----------------------------------------------------------------------------
\* Inputs: Shopify order bodies, gateway replies, error messages

CardPayments == <<"C", "a", "r", "d", " ", "P", "a", "y", "m", "e", "n", "t", "s">>

PayPal == <<"P", "a", "y", "P", "a", "l">>

Gw(t, s, a) == [t |-> t, s |-> s, a |-> a]

GatewayInputs ==
  { Gw("undefined", <<>>, <<>>),
    Gw("number", <<>>, <<>>),
    Gw("string", CardPayments, <<>>),
    Gw("array", <<>>, <<>>),
    Gw("array", <<>>, <<Str(PayPal)>>),
    Gw("array", <<>>, <<Str(PayPal), Str(<<"C", "A", "R", "D">>)>>),
    Gw("array", <<>>, <<BadObj>>),
    Gw("array", <<>>, <<Str(<<"c", "a", "r", "d">>), BadObj>>) }

NameInputs ==
  { Undef,
    Str(<<"#", "1", "0", "0", "1">>),
    Str(<<" ", "b", "o", "n", "g", "s", "-", "7", " ">>),
    Str(<<" ", " ">>),
    BadObj }

OrderNumberInputs == { Undef, Num(1001000) }

TotalPriceInputs ==
  { Undef, Num(0), Num(12500), Str(<<" ", "1", "2", ".", "5", "0", " ">>), Str(<<" ", " ">>) }

CurrentTotalInputs == { Undef, Str(<<"4", "5", ".", "0", "0">>) }

SubtotalInputs == { Undef, Num(19999) }

ShopMoneyInputs == { Undef, Str(<<"9", ".", "9", "9">>) }

EmailInputs == { Undef, Str(<<"a", "@", "b">>) }

CustomerEmailInputs == { Undef, Str(<<"c", "@", "d">>) }

Address(first, last, a1, a2, city, zip, cc) ==
  [first_name |-> first, last_name |-> last, address1 |-> a1, address2 |-> a2,
   city |-> city, zip |-> zip, country_code |-> cc]

\* order.shipping_address || order.billing_address || {}: no address at all,
\* or a shipping address without a last name
NoAddress == Address(Undef, Undef, Undef, Undef, Undef, Undef, Undef)

ShippingInputs ==
  { NoAddress,
    Address(Str(<<"A", "l">>), Undef, Str(<<"1", " ", "R", "d">>), Str(<<"F", "l", "a", "t">>),
            Str(<<"L", "y", "o", "n">>), Str(<<"6", "9">>), Str(<<"f", "r">>)) }

\* the customer object carries an email only
CustomerNameInputs == { Undef }

Orders ==
  [payment_gateway_names : GatewayInputs, name : NameInputs,
   order_number : OrderNumberInputs, total_price : TotalPriceInputs,
   current_total_price : CurrentTotalInputs, subtotal_price : SubtotalInputs,
   shop_money_amount : ShopMoneyInputs, email : EmailInputs,
   customer_email : CustomerEmailInputs, shipping_address : ShippingInputs,
   customer_first_name : CustomerNameInputs, customer_last_name : CustomerNameInputs,
   customer_country_code : CustomerNameInputs]

EmptyOrder ==
  [payment_gateway_names |-> Gw("undefined", <<>>, <<>>), name |-> Undef,
   order_number |-> Undef, total_price |-> Undef, current_total_price |-> Undef,
   subtotal_price |-> Undef, shop_money_amount |-> Undef, email |-> Undef,
   customer_email |-> Undef, shipping_address |-> NoAddress,
   customer_first_name |-> Undef, customer_last_name |-> Undef,
   customer_country_code |-> Undef]

\* pData.redirectUrl of the gateway reply: absent, empty, or a link
RedirectInputs == { Undef, Str(<<>>), Str(<<"h", "t", "t", "p", "s", ":", "/", "/", "p">>) }

ParagonErrors == { "timeout of 15000ms exceeded", "Request failed with status code 500" }

MailErrors == { "Invalid login" }

SecretInputs == { <<>>, <<"k", "3", "y">> }

-----------------------------------------------------------------------------
\* Acknowledgment bodies: res.status(..).json(..)

Absent == [t |-> "undefined", v |-> ""]

JsTrue == [t |-> "boolean", v |-> "true"]

JsString(v) == [t |-> "string", v |-> v]

SkippedResponseNoTag ==
  [status |-> 200, ok |-> TRUE, skipped |-> Absent,
   error |-> Absent, message |-> Absent, paymentLink |-> Undef, clientOrderId |-> Undef]

SkippedResponse ==
  [status |-> 200, ok |-> TRUE, skipped |-> JsString("not-card-or-bad-payload"),
   error |-> Absent, message |-> Absent, paymentLink |-> Undef, clientOrderId |-> Undef]

ParagonFailedResponseOk(msg) ==
  [status |-> 200, ok |-> TRUE, skipped |-> Absent,
   error |-> JsString("paragon-failed"), message |-> JsString(msg),
   paymentLink |-> Undef, clientOrderId |-> Undef]

ParagonFailedResponse(msg) ==
  [status |-> 200, ok |-> FALSE, skipped |-> Absent,
   error |-> JsString("paragon-failed"), message |-> JsString(msg),
   paymentLink |-> Undef, clientOrderId |-> Undef]

EmailFailedResponseNoLink(msg, link) ==
  [status |-> 200, ok |-> FALSE, skipped |-> Absent,
   error |-> JsString("email-failed"), message |-> JsString(msg),
   paymentLink |-> Undef, clientOrderId |-> Undef]

EmailFailedResponse(msg, link) ==
  [status |-> 200, ok |-> FALSE, skipped |-> Absent,
   error |-> JsString("email-failed"), message |-> JsString(msg),
   paymentLink |-> link, clientOrderId |-> Undef]

SuccessResponse(link, id) ==
  [status |-> 200, ok |-> TRUE, skipped |-> Absent, error |-> Absent,
   message |-> Absent, paymentLink |-> link, clientOrderId |-> Str(id)]

HandlerCrashedResponse500(msg) ==
  [status |-> 500, ok |-> FALSE, skipped |-> Absent,
   error |-> JsString("handler-crashed"), message |-> JsString(msg),
   paymentLink |-> Undef, clientOrderId |-> Undef]

HandlerCrashedResponse(msg) ==
  [status |-> 200, ok |-> FALSE, skipped |-> Absent,
   error |-> JsString("handler-crashed"), message |-> JsString(msg),
   paymentLink |-> Undef, clientOrderId |-> Undef]

ShouldNotifyEmailOnly(email, link) == Truthy(email)

\* parsed.customerEmail && paymentLink
ShouldNotify(email, link) == Truthy(email) /\ Truthy(link)

-----------------------------------------------------------------------------
\* State

VARIABLES
  PARAGON_CONTROL,  \* the signing secret read from the environment at start
  pc,               \* position of the /shopify-order handler
  reqBody,          \* req.body of the call being handled
  built,            \* result of buildParagonRequestFromShopify
  serializations,   \* JSON serializations of the request object in this call
  gatewayReqs,      \* requests handed to axios.post in this call
  paragonResp,      \* outcome of the gateway call
  paymentLink,      \* paymentLink local of the handler
  mails,            \* messages handed to transporter.sendMail in this call
  mailState,        \* outcome of the email send
  responses         \* acknowledgments sent on res in this call

vars == <<PARAGON_CONTROL, pc, reqBody, built, serializations, gatewayReqs,
          paragonResp, paymentLink, mails, mailState, responses>>

NoResp == [state |-> "none", redirectUrl |-> Undef, message |-> ""]

Init ==
  /\ PARAGON_CONTROL \in SecretInputs
  /\ pc = "idle"
  /\ reqBody = EmptyOrder
  /\ built = NoBuilt("null")
  /\ serializations = 0
  /\ gatewayReqs = <<>>
  /\ paragonResp = NoResp
  /\ paymentLink = Str(<<>>)
  /\ mails = <<>>
  /\ mailState = "none"
  /\ responses = <<>>

\* A new inbound call: the request-scoped state is set from the order
Fresh(order, b) ==
  /\ reqBody' = order
  /\ built' = b
  /\ paymentLink' = Str(<<>>)
  /\ mails' = <<>>
  /\ mailState' = "none"
  /\ UNCHANGED PARAGON_CONTROL

\* POST /shopify-order, transformer returns null: skipped acknowledgment
ShopifyOrderSkipped ==
  /\ pc = "idle"
  /\ \E order \in Orders, now \in 1..MaxNow :
    LET b == buildParagonRequestFromShopify(order, PARAGON_CONTROL, now)
    IN /\ b.kind = "null"
       /\ Fresh(order, b)
       /\ serializations' = 0
       /\ gatewayReqs' = <<>>
       /\ paragonResp' = NoResp
       /\ responses' = <<SkippedResponse>>
       /\ pc' = "done"

\* POST /shopify-order, transformer throws: the catch-all answers
ShopifyOrderCrashed ==
  /\ pc = "idle"
  /\ \E order \in Orders, now \in 1..MaxNow :
    LET b == buildParagonRequestFromShopify(order, PARAGON_CONTROL, now)
    IN /\ b.kind = "throw"
       /\ Fresh(order, b)
       /\ serializations' = 0
       /\ gatewayReqs' = <<>>
       /\ paragonResp' = NoResp
       /\ responses' = <<HandlerCrashedResponse("TypeError")>>
       /\ pc' = "done"

\* what axios.post puts on the wire for a data argument that is an object:
\* its own JSON serialization of that object
AxiosBody(data) == JsonStringify(data)

\* POST /shopify-order, request built: axios.post(requestUrl, paragonOrder, ..)
\* is issued and the handler waits for the gateway
ShopifyOrderSubmit ==
  /\ pc = "idle"
  /\ \E order \in Orders, now \in 1..MaxNow :
    LET b == buildParagonRequestFromShopify(order, PARAGON_CONTROL, now)
    IN /\ b.kind = "built"
       /\ Fresh(order, b)
       /\ serializations' = 2
       /\ gatewayReqs' = <<[url |-> requestUrl, data |-> b.paragonOrder,
                            dataIs |-> "object", body |-> AxiosBody(b.paragonOrder),
                            auth |-> b.authHeader]>>
       /\ paragonResp' = [NoResp EXCEPT !.state = "pending"]
       /\ responses' = <<>>
       /\ pc' = "awaitParagon"

\* the gateway answers: extract the link, then notify or acknowledge
ParagonResolved ==
  /\ pc = "awaitParagon"
  /\ \E redirect \in RedirectInputs :
       LET link == Or(redirect, Str(<<>>))
       IN /\ paragonResp' = [state |-> "ok", redirectUrl |-> redirect, message |-> ""]
          /\ paymentLink' = link
          /\ IF ShouldNotify(built.parsed.customerEmail, link)
             THEN /\ mails' = Append(mails, [to |-> built.parsed.customerEmail,
                                              orderNumber |-> built.parsed.orderNumber,
                                              customerName |-> built.parsed.customerName,
                                              amount |-> built.parsed.amount,
                                              link |-> link])
                  /\ mailState' = "pending"
                  /\ pc' = "awaitMail"
                  /\ UNCHANGED responses
             ELSE /\ responses' = Append(responses,
                                    SuccessResponse(link, built.paragonOrder.clientOrderId))
                  /\ pc' = "done"
                  /\ UNCHANGED <<mails, mailState>>
  /\ UNCHANGED <<PARAGON_CONTROL, reqBody, built, serializations, gatewayReqs>>

\* the gateway call fails (timeout, non-2xx, network error)
ParagonRejected ==
  /\ pc = "awaitParagon"
  /\ \E msg \in ParagonErrors :
       /\ paragonResp' = [state |-> "failed", redirectUrl |-> Undef, message |-> msg]
       /\ responses' = Append(responses, ParagonFailedResponse(msg))
  /\ pc' = "done"
  /\ UNCHANGED <<PARAGON_CONTROL, reqBody, built, serializations, gatewayReqs,
                 paymentLink, mails, mailState>>

\* transporter.sendMail resolves
MailSent ==
  /\ pc = "awaitMail"
  /\ mailState' = "sent"
  /\ responses' = Append(responses,
                    SuccessResponse(paymentLink, built.paragonOrder.clientOrderId))
  /\ pc' = "done"
  /\ UNCHANGED <<PARAGON_CONTROL, reqBody, built, serializations, gatewayReqs,
                 paragonResp, paymentLink, mails>>

\* a send that is tried again after a rejection
MailRejectedRetry ==
  /\ pc = "awaitMail"
  /\ Len(mails) < 3
  /\ mails' = Append(mails, mails[1])
  /\ UNCHANGED <<PARAGON_CONTROL, pc, reqBody, built, serializations, gatewayReqs,
                 paragonResp, paymentLink, mailState, responses>>

\* transporter.sendMail rejects
MailRejected ==
  /\ pc = "awaitMail"
  /\ \E msg \in MailErrors :
       responses' = Append(responses, EmailFailedResponse(msg, paymentLink))
  /\ mailState' = "failed"
  /\ pc' = "done"
  /\ UNCHANGED <<PARAGON_CONTROL, reqBody, built, serializations, gatewayReqs,
                 paragonResp, paymentLink, mails>>

\* the handler has returned: everything request-scoped is discarded
Return ==
  /\ pc = "done"
  /\ pc' = "idle"
  /\ reqBody' = EmptyOrder
  /\ built' = NoBuilt("null")
  /\ serializations' = 0
  /\ gatewayReqs' = <<>>
  /\ paragonResp' = NoResp
  /\ paymentLink' = Str(<<>>)
  /\ mails' = <<>>
  /\ mailState' = "none"
  /\ responses' = <<>>
  /\ UNCHANGED PARAGON_CONTROL

Next ==
  \/ ShopifyOrderSkipped
  \/ ShopifyOrderCrashed
  \/ ShopifyOrderSubmit
  \/ ParagonResolved
  \/ ParagonRejected
  \/ MailSent
  \/ MailRejected
  \/ Return

Spec == Init /\ [][Next]_vars

-----------------------------------------------------------------------------
\* Properties

Transformed == pc # "idle"

\* C1: every request handed to the gateway carries, as its body, the very
\* string the HMAC was computed over: the body sent is bodyString itself, and
\* the request object is serialized exactly once in the call.
C1_SignedStringIsSent ==
  \A i \in 1..Len(gatewayReqs) :
    /\ gatewayReqs[i].body = built.bodyString
    /\ gatewayReqs[i].auth = Hmac(PARAGON_CONTROL, gatewayReqs[i].body, requestUrl)
    /\ gatewayReqs[i].dataIs = "string"
    /\ serializations = 1

\* C2: every acknowledgment has status 200; a call ends with an
\* acknowledgment, and an exception thrown by the transformer ends as an
\* ok=false acknowledgment from the catch-all.
C2_Always200 ==
  /\ \A i \in 1..Len(responses) : responses[i].status = 200
  /\ pc = "done" => Len(responses) = 1
  /\ (pc = "done" /\ built.kind = "throw") =>
       /\ ~responses[1].ok
       /\ responses[1].error = JsString("handler-crashed")

C2_Witness ==
  /\ pc = "done"
  /\ built.kind = "throw"
  /\ Len(responses) = 1
  /\ responses[1].status = 200

\* C3 as stated: a null transform is acknowledged {ok:true, skipped:true}
\* with no gateway call and no email.
C3_SkippedTrue ==
  (pc = "done" /\ built.kind = "null") =>
    /\ Len(responses) = 1
    /\ responses[1].ok
    /\ responses[1].skipped = JsTrue
    /\ gatewayReqs = <<>>
    /\ mails = <<>>

\* C3 amended: a null transform is acknowledged with status 200, ok=true and
\* skipped set to the reason string 'not-card-or-bad-payload', with no gateway
\* call and no email.
C3_SkippedReason ==
  (pc = "done" /\ built.kind = "null") =>
    /\ Len(responses) = 1
    /\ responses[1].status = 200
    /\ responses[1].ok
    /\ responses[1].skipped = JsString("not-card-or-bad-payload")
    /\ responses[1].error = Absent
    /\ gatewayReqs = <<>>
    /\ mails = <<>>

C3_Witness ==
  /\ pc = "done"
  /\ built.kind = "null"
  /\ PARAGON_CONTROL # <<>>
  /\ reqBody.payment_gateway_names = Gw("array", <<>>, <<Str(PayPal)>>)
  /\ Len(responses) = 1

\* C4: a failed gateway submission is acknowledged with status 200, ok=false,
\* error 'paragon-failed' and the error's message, and no email is sent.
C4_ParagonFailed ==
  paragonResp.state = "failed" =>
    /\ pc = "done"
    /\ Len(responses) = 1
    /\ responses[1].status = 200
    /\ ~responses[1].ok
    /\ responses[1].error = JsString("paragon-failed")
    /\ responses[1].message = JsString(paragonResp.message)
    /\ mails = <<>>
    /\ mailState = "none"

C4_Witness ==
  /\ paragonResp.state = "failed"
  /\ paragonResp.message = "timeout of 15000ms exceeded"
  /\ Len(responses) = 1

\* the customer email and the payment link, read off the inputs
C5_Email ==
  IF reqBody.email.s # <<>> THEN reqBody.email.s ELSE reqBody.customer_email.s

C5_Link == paragonResp.redirectUrl.s

\* C5: after a successful submission an email is handed over if and only if
\* the customer email and the payment link are both non-empty; otherwise no
\* email is attempted and the call is acknowledged ok=true with the (possibly
\* empty) link.
C5_NotifyIffBoth ==
  paragonResp.state = "ok" =>
    /\ Len(mails) = 1 <=> (C5_Email # <<>> /\ C5_Link # <<>>)
    /\ mails # <<>> => (mails[1].to.s = C5_Email /\ mails[1].link.s = C5_Link)
    /\ ~(C5_Email # <<>> /\ C5_Link # <<>>) =>
         /\ mails = <<>>
         /\ mailState = "none"
         /\ pc = "done"
         /\ Len(responses) = 1
         /\ responses[1].status = 200
         /\ responses[1].ok
         /\ responses[1].paymentLink = Str(C5_Link)

C5_Witness ==
  /\ paragonResp.state = "ok"
  /\ paragonResp.redirectUrl = Undef
  /\ C5_Email # <<>>
  /\ mails = <<>>
  /\ pc = "done"
  /\ responses[1].ok

\* C6: a failed email send is acknowledged with status 200, ok=false, an error
\* tag and message, and the payment link obtained from the gateway; the one
\* gateway submission of the call stands.
C6_EmailFailed ==
  mailState = "failed" =>
    /\ pc = "done"
    /\ Len(responses) = 1
    /\ responses[1].status = 200
    /\ ~responses[1].ok
    /\ responses[1].error = JsString("email-failed")
    /\ responses[1].message.t = "string"
    /\ responses[1].paymentLink = paragonResp.redirectUrl
    /\ responses[1].paymentLink.s # <<>>
    /\ Len(gatewayReqs) = 1
    /\ paragonResp.state = "ok"

C6_Witness ==
  /\ mailState = "failed"
  /\ Len(responses) = 1
  /\ Len(mails) = 1

\* the gateway names of an order as the claim reads them: the entries of an
\* array, a single string, nothing for any other shape
C7_Names ==
  LET raw == reqBody.payment_gateway_names
  IN IF raw.t = "array" THEN {raw.a[i].s : i \in {j \in 1..Len(raw.a) : raw.a[j].t = "string"}}
     ELSE IF raw.t = "string" THEN {raw.s}
     ELSE {}

C7_HasCard == \E x \in C7_Names : Includes(ToLowerCase(x), CARD_RE)

\* C7: transform returns null when no gateway name matches the card pattern,
\* a non-null request when one matches and the secret is non-empty, and every
\* non-null request has a non-empty merchantControl.
C7_NullIffNotCard ==
  Transformed =>
    /\ ~C7_HasCard => built.kind = "null"
    /\ (C7_HasCard /\ PARAGON_CONTROL # <<>>) => built.kind = "built"
    /\ built.kind = "built" => built.paragonOrder.merchantControl # <<>>

C8_Trimmed == Trim(ToStr(built.parsed.orderNumber))

\* C8: every non-null result has a non-empty clientOrderId that starts with
\* 'bongs-': an already prefixed order number is used unchanged, any other gets
\* the prefix once, and prefixing the id again changes nothing.
C8_PrefixOnce ==
  built.kind = "built" =>
    LET id == built.paragonOrder.clientOrderId
    IN /\ id # <<>>
       /\ StartsWith(id, PREFIX)
       /\ StartsWith(C8_Trimmed, PREFIX) => id = C8_Trimmed
       /\ ~StartsWith(C8_Trimmed, PREFIX) => id = PREFIX \o C8_Trimmed
       /\ (IF StartsWith(id, PREFIX) THEN id ELSE PREFIX \o id) = id

C8_Witness ==
  /\ built.kind = "built"
  /\ reqBody.name = Str(<<" ", "b", "o", "n", "g", "s", "-", "7", " ">>)
  /\ built.paragonOrder.clientOrderId = <<"b", "o", "n", "g", "s", "-", "7">>

\* the first amount field that yields a value, in the claim's order
C9_Resolved ==
  IF Truthy(reqBody.total_price) THEN reqBody.total_price
  ELSE IF Truthy(reqBody.current_total_price) THEN reqBody.current_total_price
  ELSE IF Truthy(reqBody.subtotal_price) THEN reqBody.subtotal_price
  ELSE IF Truthy(reqBody.shop_money_amount) THEN reqBody.shop_money_amount
  ELSE Undef

C9_IsDigit(c) == \E i \in 1..Len(DigitChars) : DigitChars[i] = c

C9_TwoDecimals(x) ==
  /\ Len(x) >= 4
  /\ x[Len(x) - 2] = "."
  /\ \A i \in (1..Len(x)) \ {Len(x) - 2} : C9_IsDigit(x[i])

C10_Counts ==
  /\ Len(gatewayReqs) <= 1
  /\ Len(mails) <= 1
  /\ Len(responses) <= 1
  /\ mails # <<>> => (paragonResp.state = "ok" /\ Len(gatewayReqs) = 1)
  /\ pc = "done" <=> Len(responses) = 1

\* C10: a call makes at most one gateway submission and at most one email
\* attempt, the email only after the submission succeeded, and sends exactly
\* one acknowledgment, after which nothing more is sent for that call.
C10_NoRetries ==
  /\ []C10_Counts
  /\ [][(Len(responses) = 1 /\ pc' # "idle") =>
          (gatewayReqs' = gatewayReqs /\ mails' = mails /\ responses' = responses)]_vars
  /\ [][(Len(gatewayReqs') >= Len(gatewayReqs) /\ Len(mails') >= Len(mails))
         \/ pc' = "idle"]_vars

C10_Witness ==
  /\ pc = "done"
  /\ Len(gatewayReqs) = 1
  /\ Len(mails) = 1
  /\ Len(responses) = 1
  /\ mailState = "sent"

====
